---------------------------- MODULE Spec2Model ----------------------------
(***************************************************************************)
(* kvmd: the two-pass configuration bootstrap (kvmd/apps/__init__.py) and  *)
(* the memoised plugin registry (kvmd/plugins/__init__.py).                *)
(*                                                                         *)
(* Three specifications share the module:                                  *)
(*   SpecMerge    - _merge_dicts applied to every bounded (dest, src)      *)
(*   SpecRegistry - get_plugin_class behind functools.lru_cache()          *)
(*   Spec         - one run of _init_config, statement by statement        *)
(***************************************************************************)
EXTENDS Integers, Sequences, FiniteSets, TLC

VARIABLES
    \* ---- _merge_dicts harness
    dest,              \* the mapping _merge_dicts mutates in place
    src,               \* the override mapping
    dest0,             \* dest as it was before the call
    merged,            \* TRUE once _merge_dicts(dest, src) has returned
    merge_exc,         \* exception raised by _merge_dicts ("none": it raises nothing)
    \* ---- get_plugin_class behind lru_cache
    key,               \* the (sub, name) pair under observation
    cached,            \* key has an entry in the lru_cache
    cached_ref,        \* the type reference that entry holds
    newer,             \* number of other cache entries used more recently than key
    older,             \* number of other cache entries used less recently than key
    sys_modules,       \* load generation of key's module in sys.modules (0: not imported)
    imports,           \* how often import_module ran for key
    returns,           \* how often a call for key returned a type
    first_ref,         \* the type reference the first successful call returned
    last,              \* outcome of the latest call for key
    \* ---- _init_config
    pc,                \* position in _init_config
    sections,          \* argument: the requested top-level sections
    override,          \* build_raw_from_options(override_options)
    raw_config,        \* load_yaml_file(config_path), then merged in place
    scheme,            \* the scheme, mutated in place by the splice
    config,            \* local variable config
    pending,           \* exception in flight inside the try block
    outcome,           \* how _init_config ended
    trace,             \* the calls _init_config has made, in order
    passes             \* each make_config call: the raw mapping and scheme given, the result

mergeVars == <<dest, src, dest0, merged, merge_exc>>
registryVars == <<key, cached, cached_ref, newer, older, sys_modules, imports, returns, first_ref, last>>
configVars == <<pc, sections, override, raw_config, scheme, config, pending, outcome,
                trace, passes>>
vars == <<mergeVars, registryVars, configVars>>

(***************************************************************************)
(* Raw configuration values.  A YAML document is a tree of mappings, lists *)
(* and scalars; each value carries its Python type as a tag.               *)
(***************************************************************************)
Scalar(x) == [tag |-> "scalar", v |-> x]
List(x) == [tag |-> "list", v |-> x]
Dict(f) == [tag |-> "dict", v |-> f]

IsDict(x) == x.tag = "dict"

\* the empty mapping {}
EmptyMap == [k \in {} |-> Scalar(0)]

\* dest[key] = value
SetItem(d, k, x) == [j \in (DOMAIN d) \cup {k} |-> IF j = k THEN x ELSE d[j]]

RECURSIVE MergeDicts(_, _)
RECURSIVE MergeLoop(_, _, _)

\* a merge that keeps an existing non-mapping value instead of replacing it
MergeKeyKeep(d, s, k) ==
    IF k \in DOMAIN d
    THEN IF IsDict(d[k]) /\ IsDict(s[k])
         THEN SetItem(d, k, Dict(MergeDicts(d[k].v, s[k].v)))
         ELSE d
    ELSE SetItem(d, k, s[k])

\* a merge that concatenates lists
MergeKeyConcat(d, s, k) ==
    IF k \in DOMAIN d
    THEN IF IsDict(d[k]) /\ IsDict(s[k])
         THEN SetItem(d, k, Dict(MergeDicts(d[k].v, s[k].v)))
         ELSE IF d[k].tag = "list" /\ s[k].tag = "list"
              THEN SetItem(d, k, List(d[k].v \o s[k].v))
              ELSE SetItem(d, k, s[k])
    ELSE SetItem(d, k, s[k])

\* one iteration of the loop body of _merge_dicts
MergeKey(d, s, k) ==
    IF k \in DOMAIN d /\ IsDict(d[k]) /\ IsDict(s[k])
    THEN SetItem(d, k, Dict(MergeDicts(d[k].v, s[k].v)))
    ELSE SetItem(d, k, s[k])

\* for key in src: ...   (todo: the keys of src not yet visited)
MergeLoop(d, s, todo) ==
    IF todo = {} THEN d
    ELSE LET k == CHOOSE x \in todo : TRUE
         IN MergeLoop(MergeKey(d, s, k), s, todo \ {k})

\* _merge_dicts(dest, src): the value dest holds afterwards
MergeDicts(d, s) == MergeLoop(d, s, DOMAIN s)

(***************************************************************************)
(* Bounded inputs of _merge_dicts: two levels of mappings.                 *)
(***************************************************************************)
MaxScalar == 1

OuterKeys == {"a", "b"}
InnerKeys == {"x", "y"}

Leaves == {Scalar(i) : i \in 1..MaxScalar} \cup {List(<<i>>) : i \in 1..MaxScalar}

\* every mapping from a subset of keys into vals
Mappings(keys, vals) == UNION {[ks -> vals] : ks \in SUBSET keys}

InnerDicts == Mappings(InnerKeys, Leaves)
OuterDicts == Mappings(OuterKeys, Leaves \cup {Dict(f) : f \in InnerDicts})

MergeInit ==
    /\ dest \in OuterDicts
    /\ src \in OuterDicts
    /\ dest0 = dest
    /\ merged = FALSE
    /\ merge_exc = "none"

\* _merge_dicts(dest, src)
Merge ==
    /\ ~merged
    /\ dest' = MergeDicts(dest, src)
    /\ merged' = TRUE
    /\ merge_exc' = "none"
    /\ UNCHANGED <<src, dest0>>
    /\ UNCHANGED <<registryVars, configVars>>

MergeNext == Merge

(***************************************************************************)
(* The plugin registry.  The modules importable under kvmd.plugins are the *)
(* environment: two well-formed auth plugins, one module that lacks the    *)
(* Plugin symbol, and names for which no module exists (the empty name     *)
(* among them: "kvmd.plugins.auth." is no module).                         *)
(***************************************************************************)
PluginNames == {"htpasswd", "http", "broken", "nosuch", ""}

\* what importlib finds for kvmd.plugins.<sub>.<name>
ModuleKind(sub, name) ==
    IF sub = "auth" /\ name \in {"htpasswd", "http"} THEN "plugin"
    ELSE IF sub = "auth" /\ name = "broken" THEN "noplugin"
    ELSE "missing"

\* Plugin.get_plugin_options() of the auth plugins
PluginOptions(name) ==
    IF name = "htpasswd" THEN {"file"} ELSE IF name = "http" THEN {"url"} ELSE {}

NoResult == [kind |-> "none", sub |-> "", name |-> "", ref |-> 0]

\* str(UnknownPluginError): "Unknown plugin '%s/%s'" % (sub, name)
UnknownPluginText(sub, name) == <<"Unknown plugin", sub, name>>

\* the body of get_plugin_class; gen is the module object import_module yields
GetPluginClass(sub, name, gen) ==
    IF ModuleKind(sub, name) = "missing"
    THEN [kind |-> "UnknownPluginError", sub |-> sub, name |-> name, ref |-> 0]
    ELSE IF ModuleKind(sub, name) = "plugin"
         THEN [kind |-> "type", sub |-> sub, name |-> name, ref |-> gen]
         ELSE [kind |-> "AttributeError", sub |-> sub, name |-> name, ref |-> 0]

\* importlib.import_module: sys.modules keeps the module object once loaded
ImportModule(sub, name, loaded) ==
    IF ModuleKind(sub, name) = "missing" THEN 0
    ELSE IF loaded = 0 THEN 1 ELSE loaded

\* functools.lru_cache() without arguments: maxsize = 128
LruMaxSize == 128

\* bounds on the calls made for the observed pair
MaxImports == 3
MaxReturns == 3

RegistryInit ==
    /\ key \in {"auth"} \X PluginNames
    /\ cached = FALSE
    /\ cached_ref = 0
    /\ newer = 0
    /\ older = 0
    /\ sys_modules = 0
    /\ imports = 0
    /\ returns = 0
    /\ first_ref = 0
    /\ last = NoResult

\* get_plugin_class(*key), answered from the cache
CallHit ==
    /\ cached
    /\ returns < MaxReturns
    /\ last' = [kind |-> "type", sub |-> key[1], name |-> key[2], ref |-> cached_ref]
    /\ returns' = returns + 1
    /\ newer' = 0
    /\ older' = older + newer
    /\ UNCHANGED <<key, cached, cached_ref, sys_modules, imports, first_ref>>
    /\ UNCHANGED <<mergeVars, configVars>>

\* get_plugin_class(*key), not in the cache: the body runs; only a returned
\* value is stored, evicting the least recently used entry of a full cache
CallMiss ==
    /\ ~cached
    /\ imports < MaxImports
    /\ returns < MaxReturns
    /\ imports' = imports + 1
    /\ sys_modules' = ImportModule(key[1], key[2], sys_modules)
    /\ last' = GetPluginClass(key[1], key[2], sys_modules')
    /\ IF last'.kind = "type"
       THEN /\ cached' = TRUE
            /\ cached_ref' = last'.ref
            /\ returns' = returns + 1
            /\ first_ref' = IF returns = 0 THEN last'.ref ELSE first_ref
            /\ newer' = 0
            /\ older' = IF older = LruMaxSize THEN older - 1 ELSE older
       ELSE UNCHANGED <<cached, cached_ref, returns, first_ref, newer, older>>
    /\ UNCHANGED key
    /\ UNCHANGED <<mergeVars, configVars>>

\* a call for another pair that is in the cache: that entry becomes the most
\* recently used one
OtherHit ==
    /\ cached
    /\ older > 0
    /\ older' = older - 1
    /\ newer' = newer + 1
    /\ UNCHANGED <<key, cached, cached_ref, sys_modules, imports, returns, first_ref, last>>
    /\ UNCHANGED <<mergeVars, configVars>>

\* a call for another pair that is not in the cache and resolves: it is stored
\* as the most recently used entry; a full cache drops its oldest entry first
OtherMiss ==
    /\ IF ~cached
       THEN /\ older < LruMaxSize
            /\ older' = older + 1
            /\ UNCHANGED <<cached, cached_ref, newer>>
       ELSE IF newer + older + 1 < LruMaxSize
            THEN /\ newer' = newer + 1
                 /\ UNCHANGED <<cached, cached_ref, older>>
            ELSE IF older > 0
                 THEN /\ older' = older - 1
                      /\ newer' = newer + 1
                      /\ UNCHANGED <<cached, cached_ref>>
                 ELSE /\ cached' = FALSE
                      /\ cached_ref' = 0
                      /\ older' = newer + 1
                      /\ newer' = 0
    /\ UNCHANGED <<key, sys_modules, imports, returns, first_ref, last>>
    /\ UNCHANGED <<mergeVars, configVars>>

RegistryNext == CallHit \/ CallMiss \/ OtherHit \/ OtherMiss

(***************************************************************************)
(* _init_config.  load_yaml_file, build_raw_from_options, make_config and  *)
(* get_auth_service_class live in kvmd.yamlconf and kvmd.plugins.auth; the *)
(* reduced scheme keeps the options _init_config reads (the two selectors) *)
(* and one validated option per place a resolution pass can fail.          *)
(***************************************************************************)
AllSections == {"logging", "kvmd", "ipmi"}

\* a slot of scheme["kvmd"]["auth"] that holds no plugin fragment
NoSlot == [set |-> FALSE, opts |-> {}]

\* _get_config_scheme(sections): the base scheme has no auth.internal and no
\* auth.external key; an empty sections list yields the whole scheme
GetConfigScheme(secs) ==
    [top |-> IF secs # {} THEN {s \in AllSections : s \in secs} ELSE AllSections,
     internal |-> NoSlot,
     external |-> NoSlot]

\* defaults of the two selectors in the scheme
DefaultInternalType == "htpasswd"
DefaultExternalType == ""

RECURSIVE GetPath(_, _, _)
\* the raw value at a path of keys, or the default when the path is absent
GetPath(d, p, default) ==
    IF Head(p) \notin DOMAIN d THEN default
    ELSE IF Len(p) = 1 THEN d[Head(p)]
    ELSE IF IsDict(d[Head(p)]) THEN GetPath(d[Head(p)].v, Tail(p), default)
    ELSE default

\* a validator of the validator library: rejects the value "bad"
Valid(x) == x # Scalar("bad")

NoConfig == [pass |-> 0, internal_type |-> "", external_type |-> ""]

\* make_config(raw, scheme): walks the scheme, takes each option from raw or
\* its default, validates it; ok = FALSE stands for ConfigError
MakeConfig(raw, sch) ==
    LET kvmd == "kvmd" \in sch.top
        slotOk(slot, name) ==
            \A o \in slot.opts :
                Valid(GetPath(raw, <<"kvmd", "auth", name, o>>, Scalar("default")))
    IN [ok |-> kvmd => /\ Valid(GetPath(raw, <<"kvmd", "server", "port">>, Scalar("0")))
                       /\ slotOk(sch.internal, "internal")
                       /\ slotOk(sch.external, "external"),
        internal_type |->
            IF kvmd
            THEN GetPath(raw, <<"kvmd", "auth", "internal_type">>,
                         Scalar(DefaultInternalType)).v
            ELSE "",
        external_type |->
            IF kvmd
            THEN GetPath(raw, <<"kvmd", "auth", "external_type">>,
                         Scalar(DefaultExternalType)).v
            ELSE ""]

\* get_auth_service_class(name): the registry asked for subsystem "auth"
GetAuthServiceClass(name) == GetPluginClass("auth", name, 1)

NoExc == [kind |-> "none", text |-> <<"", "", "">>]
ConfigErrorExc == [kind |-> "ConfigError", text |-> <<"Invalid value", "", "">>]
ExcOf(r) ==
    [kind |-> r.kind,
     text |-> IF r.kind = "UnknownPluginError" THEN UnknownPluginText(r.sub, r.name)
              ELSE <<"module has no attribute", "Plugin", "">>]

NoOutcome == [kind |-> "none", text |-> <<"", <<"", "", "">>>>, config |-> NoConfig]

Event(what, selector, name) == <<what, selector, name>>
Happened(what) == \E i \in 1..Len(trace) : trace[i][1] = what
HappenedFor(what, selector) ==
    \E i \in 1..Len(trace) : trace[i][1] = what /\ trace[i][2] = selector
Count(what) == Cardinality({i \in 1..Len(trace) : trace[i][1] = what})
IndexOf(what) == CHOOSE i \in 1..Len(trace) : trace[i][1] = what

(***************************************************************************)
(* Inputs: the loaded file and the mapping built from the override tokens. *)
(* A choice is <<>> (key absent) or <<value>>.                             *)
(***************************************************************************)
Opt(k, c) == IF c = <<>> THEN EmptyMap ELSE k :> Scalar(c[1])

AuthMap(it, et, file) ==
    Opt("internal_type", it) @@ Opt("external_type", et)
    @@ (IF file = <<>> THEN EmptyMap ELSE "internal" :> Dict(Opt("file", file)))

RawDoc(it, et, port, file) ==
    "kvmd" :> Dict(("auth" :> Dict(AuthMap(it, et, file)))
                   @@ (IF port = <<>> THEN EmptyMap ELSE "server" :> Dict(Opt("port", port))))

FileDocs ==
    {RawDoc(it, et, port, file) :
        it \in {<<>>, <<"">>, <<"htpasswd">>, <<"broken">>, <<"nosuch">>},
        et \in {<<>>, <<"http">>, <<"nosuch">>},
        port \in {<<>>, <<"bad">>},
        file \in {<<>>, <<"bad">>}}

OverrideDocs ==
    {EmptyMap} \cup
    {RawDoc(it, et, <<>>, <<>>) : it \in {<<>>, <<"">>, <<"http">>}, et \in {<<>>, <<"">>}}

ConfigInit ==
    /\ pc = "start"
    /\ sections \in SUBSET AllSections
    /\ raw_config \in FileDocs
    /\ override \in OverrideDocs
    /\ scheme = GetConfigScheme({})
    /\ config = NoConfig
    /\ pending = NoExc
    /\ outcome = NoOutcome
    /\ trace = <<>>
    /\ passes = <<>>

\* scheme = _get_config_scheme(sections)
BuildScheme ==
    /\ pc = "start"
    /\ scheme' = GetConfigScheme(sections)
    /\ pc' = "merge"
    /\ UNCHANGED <<sections, override, raw_config, config, pending, outcome, trace, passes>>
    /\ UNCHANGED <<mergeVars, registryVars>>

\* _merge_dicts(raw_config, build_raw_from_options(override_options))
MergeOverrides ==
    /\ pc = "merge"
    /\ raw_config' = MergeDicts(raw_config, override)
    /\ trace' = Append(trace, Event("merge", "", ""))
    /\ pc' = "pass1"
    /\ UNCHANGED <<sections, override, scheme, config, pending, outcome, passes>>
    /\ UNCHANGED <<mergeVars, registryVars>>

\* config = make_config(raw_config, scheme), first time
Pass1 ==
    /\ pc = "pass1"
    /\ LET r == MakeConfig(raw_config, scheme)
       IN /\ passes' = Append(passes, [raw |-> raw_config, scheme |-> scheme, result |-> r])
          /\ trace' = Append(trace, Event("pass1", "", ""))
          /\ IF r.ok
             THEN /\ config' = [pass |-> 1, internal_type |-> r.internal_type,
                                external_type |-> r.external_type]
                  /\ pc' = "guard"
                  /\ UNCHANGED pending
             ELSE /\ pending' = ConfigErrorExc
                  /\ pc' = "except"
                  /\ UNCHANGED config
    /\ UNCHANGED <<sections, override, raw_config, scheme, outcome>>
    /\ UNCHANGED <<mergeVars, registryVars>>

\* "kvmd" in sections
KvmdRequested == "kvmd" \in sections

\* if "kvmd" in sections:
Guard ==
    /\ pc = "guard"
    /\ pc' = IF KvmdRequested THEN "internal" ELSE "return"
    /\ UNCHANGED <<sections, override, raw_config, scheme, config, pending, outcome,
                   trace, passes>>
    /\ UNCHANGED <<mergeVars, registryVars>>

\* the lookup and splice of one selector: get_auth_service_class(name)
\* .get_plugin_options() stored into scheme["kvmd"]["auth"][selector]
Splice(selector, name, next) ==
    LET r == GetAuthServiceClass(name)
    IN IF r.kind = "type"
       THEN /\ scheme' = [scheme EXCEPT ![selector] =
                              [set |-> TRUE, opts |-> PluginOptions(name)]]
            /\ trace' = trace \o <<Event("lookup", selector, name),
                                   Event("splice", selector, name)>>
            /\ pc' = next
            /\ UNCHANGED pending
       ELSE /\ pending' = ExcOf(r)
            /\ trace' = Append(trace, Event("lookup", selector, name))
            /\ pc' = "except"
            /\ UNCHANGED scheme

\* scheme["kvmd"]["auth"]["internal"] = ...(config.kvmd.auth.internal_type)...
SpliceInternal ==
    /\ pc = "internal"
    /\ Splice("internal", config.internal_type, "external")
    /\ UNCHANGED <<sections, override, raw_config, config, outcome, passes>>
    /\ UNCHANGED <<mergeVars, registryVars>>

\* an external splice without the emptiness test
SpliceExternalUnguarded ==
    /\ pc = "external"
    /\ Splice("external", config.external_type, "pass2")
    /\ UNCHANGED <<sections, override, raw_config, config, outcome, passes>>
    /\ UNCHANGED <<mergeVars, registryVars>>

\* if config.kvmd.auth.external_type: scheme["kvmd"]["auth"]["external"] = ...
SpliceExternal ==
    /\ pc = "external"
    /\ IF config.external_type # ""
       THEN Splice("external", config.external_type, "pass2")
       ELSE /\ pc' = "pass2"
            /\ UNCHANGED <<scheme, trace, pending>>
    /\ UNCHANGED <<sections, override, raw_config, config, outcome, passes>>
    /\ UNCHANGED <<mergeVars, registryVars>>

\* a second pass whose result is not bound to config
Pass2Discarded ==
    /\ pc = "pass2"
    /\ LET r == MakeConfig(raw_config, scheme)
       IN /\ passes' = Append(passes, [raw |-> raw_config, scheme |-> scheme, result |-> r])
          /\ trace' = Append(trace, Event("pass2", "", ""))
          /\ IF r.ok
             THEN /\ pc' = "return"
                  /\ UNCHANGED pending
             ELSE /\ pending' = ConfigErrorExc
                  /\ pc' = "except"
    /\ UNCHANGED <<sections, override, raw_config, scheme, config, outcome>>
    /\ UNCHANGED <<mergeVars, registryVars>>

\* a second pass that merges the overrides once more before resolving
Pass2Remerged ==
    /\ pc = "pass2"
    /\ raw_config' = MergeDicts(raw_config, override)
    /\ LET r == MakeConfig(raw_config', scheme)
       IN /\ passes' = Append(passes, [raw |-> raw_config', scheme |-> scheme, result |-> r])
          /\ trace' = trace \o <<Event("merge", "", ""), Event("pass2", "", "")>>
          /\ IF r.ok
             THEN /\ config' = [pass |-> 2, internal_type |-> r.internal_type,
                                external_type |-> r.external_type]
                  /\ pc' = "return"
                  /\ UNCHANGED pending
             ELSE /\ pending' = ConfigErrorExc
                  /\ pc' = "except"
                  /\ UNCHANGED config
    /\ UNCHANGED <<sections, override, scheme, outcome>>
    /\ UNCHANGED <<mergeVars, registryVars>>

\* config = make_config(raw_config, scheme), second time
Pass2 ==
    /\ pc = "pass2"
    /\ LET r == MakeConfig(raw_config, scheme)
       IN /\ passes' = Append(passes, [raw |-> raw_config, scheme |-> scheme, result |-> r])
          /\ trace' = Append(trace, Event("pass2", "", ""))
          /\ IF r.ok
             THEN /\ config' = [pass |-> 2, internal_type |-> r.internal_type,
                                external_type |-> r.external_type]
                  /\ pc' = "return"
                  /\ UNCHANGED pending
             ELSE /\ pending' = ConfigErrorExc
                  /\ pc' = "except"
                  /\ UNCHANGED config
    /\ UNCHANGED <<sections, override, raw_config, scheme, outcome>>
    /\ UNCHANGED <<mergeVars, registryVars>>

\* return config
Return ==
    /\ pc = "return"
    /\ outcome' = [kind |-> "returned", text |-> NoOutcome.text, config |-> config]
    /\ pc' = "done"
    /\ UNCHANGED <<sections, override, raw_config, scheme, config, pending, trace, passes>>
    /\ UNCHANGED <<mergeVars, registryVars>>

\* a handler that converts ConfigError only
ExceptConfigErrorOnly ==
    /\ pc = "except"
    /\ outcome' = IF pending.kind = "ConfigError"
                  THEN [kind |-> "SystemExit", text |-> <<"Config error: ", pending.text>>,
                        config |-> NoConfig]
                  ELSE [kind |-> pending.kind, text |-> <<"", pending.text>>,
                        config |-> NoConfig]
    /\ pc' = "done"
    /\ UNCHANGED <<sections, override, raw_config, scheme, config, pending, trace, passes>>
    /\ UNCHANGED <<mergeVars, registryVars>>

\* except (ConfigError, UnknownPluginError) as err:
\*     raise SystemExit("Config error: %s" % (str(err)))
\* any other exception leaves _init_config as it is
Except ==
    /\ pc = "except"
    /\ outcome' = IF pending.kind \in {"ConfigError", "UnknownPluginError"}
                  THEN [kind |-> "SystemExit", text |-> <<"Config error: ", pending.text>>,
                        config |-> NoConfig]
                  ELSE [kind |-> pending.kind, text |-> <<"", pending.text>>,
                        config |-> NoConfig]
    /\ pc' = "done"
    /\ UNCHANGED <<sections, override, raw_config, scheme, config, pending, trace, passes>>
    /\ UNCHANGED <<mergeVars, registryVars>>

ConfigNext ==
    \/ BuildScheme
    \/ MergeOverrides
    \/ Pass1
    \/ Guard
    \/ SpliceInternal
    \/ SpliceExternal
    \/ Pass2
    \/ Return
    \/ Except

RegistryIdle ==
    /\ key = <<"auth", "">>
    /\ cached = FALSE
    /\ cached_ref = 0
    /\ newer = 0
    /\ older = 0
    /\ sys_modules = 0
    /\ imports = 0
    /\ returns = 0
    /\ first_ref = 0
    /\ last = NoResult

ConfigIdle ==
    /\ pc = "idle"
    /\ sections = {}
    /\ override = EmptyMap
    /\ raw_config = EmptyMap
    /\ scheme = GetConfigScheme({})
    /\ config = NoConfig
    /\ pending = NoExc
    /\ outcome = NoOutcome
    /\ trace = <<>>
    /\ passes = <<>>

MergeIdle ==
    /\ dest = EmptyMap
    /\ src = EmptyMap
    /\ dest0 = EmptyMap
    /\ merged = FALSE
    /\ merge_exc = "none"

InitMerge == MergeInit /\ RegistryIdle /\ ConfigIdle
SpecMerge == InitMerge /\ [][MergeNext]_vars

InitRegistry == RegistryInit /\ MergeIdle /\ ConfigIdle
SpecRegistry == InitRegistry /\ [][RegistryNext]_vars

Init == ConfigInit /\ MergeIdle /\ RegistryIdle
Next == ConfigNext
Spec == Init /\ [][Next]_vars

(***************************************************************************)
(* Claims about _merge_dicts (SpecMerge).                                  *)
(***************************************************************************)
RECURSIVE IsDeepMerge(_, _, _)
\* res is the reference deep merge of s onto d, stated key by key
IsDeepMerge(res, d, s) ==
    /\ DOMAIN res = (DOMAIN d) \cup (DOMAIN s)
    /\ \A k \in DOMAIN s :
           IF k \in DOMAIN d /\ IsDict(d[k]) /\ IsDict(s[k])
           THEN IsDict(res[k]) /\ IsDeepMerge(res[k].v, d[k].v, s[k].v)
           ELSE res[k] = s[k]
    /\ \A k \in (DOMAIN d) \ (DOMAIN s) : res[k] = d[k]

\* C1: after _merge_dicts(dest, src), dest is the reference deep merge: a key
\* of src held as a mapping on both sides is merged recursively, any other key
\* of src takes src's value as it is (lists replaced, not concatenated), and
\* every key of dest that src lacks keeps its value.
C1_DeepMerge == merged => IsDeepMerge(dest, dest0, src)

\* a merge that recursed into "a" and replaced the list at "b"
C1_Witness ==
    /\ merged
    /\ "a" \in DOMAIN dest0 /\ "a" \in DOMAIN src
    /\ IsDict(dest0["a"]) /\ IsDict(src["a"])
    /\ DOMAIN dest0["a"].v = {"x", "y"} /\ DOMAIN src["a"].v = {"x"}
    /\ dest0["a"].v["x"] # src["a"].v["x"]
    /\ "b" \in DOMAIN dest0 /\ "b" \in DOMAIN src
    /\ dest0["b"].tag = "list" /\ src["b"].tag = "list"

RECURSIVE Collides(_, _)
\* s holds a mapping at a path where d holds a value that is no mapping
Collides(d, s) ==
    \E k \in (DOMAIN d) \cap (DOMAIN s) :
        \/ IsDict(s[k]) /\ ~IsDict(d[k])
        \/ IsDict(s[k]) /\ IsDict(d[k]) /\ Collides(d[k].v, s[k].v)

\* C7 as stated: a mapping in the overrides at a path where the base holds a
\* scalar or a list makes the merge fail with MalformedOverrideError.
C7_CollisionRaises ==
    (merged /\ Collides(dest0, src)) => merge_exc = "MalformedOverrideError"

\* C7 as amended: at such a path the merge raises nothing and the override's
\* mapping replaces the base's scalar or list.
C7_CollisionReplaces ==
    merged =>
        /\ merge_exc = "none"
        /\ \A k \in (DOMAIN dest0) \cap (DOMAIN src) :
               (IsDict(src[k]) /\ ~IsDict(dest0[k])) => dest[k] = src[k]

\* the base held a list at "a", the overrides a non-empty mapping
C7_Witness ==
    /\ merged
    /\ "a" \in DOMAIN dest0 /\ "a" \in DOMAIN src
    /\ dest0["a"].tag = "list"
    /\ IsDict(src["a"]) /\ DOMAIN src["a"].v # {}

(***************************************************************************)
(* Claims about get_plugin_class (SpecRegistry).                           *)
(***************************************************************************)
\* C4: once get_plugin_class has returned a type for a pair, every later call
\* for that pair returns the identical reference and import_module is not run
\* for it again.
C4_MemoizedForever ==
    returns >= 1 => /\ last.kind = "type"
                    /\ last.ref = first_ref
                    /\ imports = 1

\* C5: get_plugin_class fails only with UnknownPluginError carrying (sub, name),
\* also when the module exists without a Plugin symbol.
C5_OnlyUnknownPluginError ==
    last.kind \notin {"none", "type"} =>
        /\ last.kind = "UnknownPluginError"
        /\ <<last.sub, last.name>> = key


(***************************************************************************)
(* Claims about _init_config (Spec).                                       *)
(***************************************************************************)
Done == pc = "done"
Returned == Done /\ outcome.kind = "returned"

\* C2 as stated: whatever the sections list, the configuration returned is the
\* result of the second pass, never that of the first.
C2_ReturnsPass2 == Returned => outcome.config.pass = 2

\* C2 as amended: the configuration returned is the second pass's result
\* exactly when "kvmd" is in the sections list; otherwise no second pass runs
\* and the first pass's result is returned.
C2_ReturnsPass2IfKvmd ==
    Returned =>
        /\ outcome.config.pass = (IF "kvmd" \in sections THEN 2 ELSE 1)
        /\ Happened("pass2") <=> "kvmd" \in sections
        /\ outcome.config.internal_type = passes[Len(passes)].result.internal_type
        /\ outcome.config.external_type = passes[Len(passes)].result.external_type

\* a run that spliced a plugin, ran both passes and returned
C2_Witness ==
    /\ Returned
    /\ "kvmd" \in sections
    /\ Len(passes) = 2
    /\ scheme.internal.set
    /\ outcome.config.pass = 2

\* the value pass 1 resolved for a selector
Selector(sel) ==
    IF sel = "internal" THEN passes[1].result.internal_type
    ELSE passes[1].result.external_type

\* past the splice of the selector, inside the "kvmd" branch
PastSplice(sel) ==
    /\ Len(passes) >= 1
    /\ passes[1].result.ok
    /\ "kvmd" \in sections
    /\ \/ pc \in {"pass2", "return"}
       \/ sel = "internal" /\ pc = "external"
       \/ pc \in {"except", "done"} /\ (sel = "internal" \/ scheme.internal.set)

\* C3 as stated: for either selector, an empty pass-1 value means no registry
\* call for it, no fragment in its slot, and no failure on its account.
C3_EmptySelectorSkipped ==
    \A sel \in {"internal", "external"} :
        (PastSplice(sel) /\ Selector(sel) = "") =>
            /\ ~HappenedFor("lookup", sel)
            /\ ~scheme[sel].set
            /\ (Done /\ ~HappenedFor("lookup", "external")) => Happened("pass2")

\* C3 as amended: only the external selector is skipped when empty (no
\* registry call, empty slot, pass 2 follows); the internal selector is looked
\* up whatever its value, and an empty one ends the run in the registry's
\* UnknownPluginError, before pass 2.
C3_OnlyExternalSkipped ==
    /\ (PastSplice("external") /\ Selector("external") = "") =>
           /\ ~HappenedFor("lookup", "external")
           /\ ~scheme.external.set
           /\ pending.kind \in {"none", "ConfigError"}
           /\ Done => Happened("pass2")
    /\ PastSplice("internal") =>
           /\ HappenedFor("lookup", "internal")
           /\ Selector("internal") = "" =>
                  /\ ~scheme.internal.set
                  /\ ~Happened("pass2")
                  /\ pending.kind = "UnknownPluginError"

\* a run with an empty external selector that went on to pass 2
C3_Witness ==
    /\ Done
    /\ PastSplice("external")
    /\ Selector("external") = ""
    /\ scheme.internal.set
    /\ Happened("pass2")

\* C6: an UnknownPluginError from the registry, for either selector, ends the
\* run before pass 2: nothing is returned and the caller gets SystemExit with
\* "Config error: " and the error's text, which names the plugin.
C6_UnknownPluginShortCircuits ==
    pending.kind = "UnknownPluginError" =>
        /\ ~Happened("pass2")
        /\ pc \in {"except", "done"}
        /\ \E i \in 1..Len(trace) :
               /\ trace[i][1] = "lookup"
               /\ pending.text = UnknownPluginText("auth", trace[i][3])
        /\ Done => /\ outcome.kind = "SystemExit"
                   /\ outcome.text = <<"Config error: ", pending.text>>
                   /\ outcome.config = NoConfig

\* the internal plugin was spliced and the external lookup failed
C6_Witness ==
    /\ Done
    /\ pending.kind = "UnknownPluginError"
    /\ scheme.internal.set
    /\ HappenedFor("lookup", "external")
    /\ outcome.kind = "SystemExit"

\* C8: every run ends either returning the result of a pass that completed
\* without error or raising SystemExit; a failed pass 2 never lets the pass-1
\* result out, and no ConfigError or UnknownPluginError reaches the caller.
C8_AllOrNothing ==
    Done =>
        /\ outcome.kind \in {"returned", "SystemExit"}
        /\ outcome.kind = "returned" =>
               /\ passes[Len(passes)].result.ok
               /\ outcome.config.pass = Len(passes)
        /\ (\E i \in 1..Len(passes) : ~passes[i].result.ok) => outcome.kind # "returned"

\* C9: in a run that reaches pass 2 the overrides are merged exactly once,
\* before pass 1, and both passes are given the same raw mapping; only the
\* scheme differs.
C9_SameRawBothPasses ==
    Happened("pass2") =>
        /\ Count("merge") = 1
        /\ IndexOf("merge") < IndexOf("pass1")
        /\ IndexOf("pass1") < IndexOf("pass2")
        /\ Len(passes) = 2
        /\ passes[1].raw = passes[2].raw
        /\ passes[2].raw = raw_config

\* pass 2 ran on a raw mapping the overrides had changed, with another scheme
C9_Witness ==
    /\ Happened("pass2")
    /\ override # EmptyMap
    /\ GetPath(override, <<"kvmd", "auth", "internal_type">>, Scalar("")).v = "http"
    /\ passes[2].raw = raw_config
    /\ passes[1].scheme # passes[2].scheme

\* C10: whenever the scheme given to pass 1 has the "kvmd" section, the
\* registry is asked for the internal auth plugin, its options are spliced
\* into kvmd.auth.internal and pass 2 runs; also for the empty sections list.
C10_KvmdSchemeSpliced ==
    (Done /\ "kvmd" \in passes[1].scheme.top /\ passes[1].result.ok) =>
        /\ HappenedFor("lookup", "internal")
        /\ pending.kind = "none" => (scheme.internal.set /\ Happened("pass2"))

=============================================================================
